---- MODULE Spec2Model ----
(***************************************************************************)
(* JK-BUS monitor (scripts/jkbus_monitor.py): the CRC-16/MODBUS check, the *)
(* delimiter splitter, the two frame decoders, the per-kind selection and  *)
(* the capture/emit loop of main().                                        *)
(*                                                                         *)
(* Bytes are naturals 0..255 and a bytes object is a sequence of them.     *)
(* Python indexes from 0 and TLA+ from 1: At(s, i) is Python's s[i] and    *)
(* Slice(s, a, b) is Python's s[a:b] for 0 <= a, 0 <= b.                   *)
(***************************************************************************)
EXTENDS Integers, Sequences, FiniteSets, TLC

VARIABLES
    pc,           \* control location of main()
    ser,          \* the serial link: "none" | "open" | "closed"
    inbuf,        \* bytes waiting in the link's input buffer (ser.in_waiting of them)
    arrived,      \* number of chunks the bus has delivered so far
    buf,          \* capture_frames: the accumulated buffer
    cands,        \* capture_frames: the slices fr formed by the last split, with their start
    crcSeen,      \* capture_frames: the slices verify_crc was evaluated on in the last split
    frames,       \* main: the frames returned by the last capture_frames
    handed,       \* main: the frames passed to decode_telemetry / decode_status this iteration
    tele_data,    \* main: tele_data
    status_data,  \* main: status_data
    points,       \* main: points
    written,      \* the events handed to write_api.write that were accepted
    logged,       \* the logger call made by the latest step of main(), "none" if none
    fails,        \* consecutive failed opens of the link so far
    signal,       \* whether a KeyboardInterrupt has been raised in main()
    sinceStart,   \* the bytes the link received since the current capture window began
    dropped,      \* whether the window's reset_input_buffer() discarded any byte
    stale,        \* the kinds of reading main still held when lines 136-138 last ran
    fn,           \* pure-function harness: which function was applied last
    arg,          \* pure-function harness: its input
    out           \* pure-function harness: its result

mainVars == <<pc, ser, inbuf, arrived, buf, cands, crcSeen, frames, handed,
              tele_data, status_data, points, written, logged, fails, signal,
              sinceStart, dropped, stale>>
fnVars == <<fn, arg, out>>
vars == <<pc, ser, inbuf, arrived, buf, cands, crcSeen, frames, handed,
          tele_data, status_data, points, written, logged, fails, signal,
          sinceStart, dropped, stale, fn, arg, out>>

----------------------------------------------------------------------------
(* Python sequence primitives *)

Min(a, b) == IF a <= b THEN a ELSE b

InRange(s, i) == 0 <= i /\ i < Len(s)

At(s, i) == s[i + 1]

Slice(s, a, b) == SubSeq(s, a + 1, Min(b, Len(s)))

RECURSIVE Concat(_)
Concat(ss) == IF Len(ss) = 0 THEN <<>> ELSE Head(ss) \o Concat(Tail(ss))

----------------------------------------------------------------------------
(* Bitwise operators on naturals *)

\* a ^ b
Xor_Add(a, b) == a + b
RECURSIVE Xor(_, _)
Xor(a, b) ==
    IF a = 0 THEN b
    ELSE IF b = 0 THEN a
    ELSE (((a % 2) + (b % 2)) % 2) + 2 * Xor(a \div 2, b \div 2)

\* x ^ w for w a power of two: the bit of weight w flipped
Toggle(x, w) == IF (x \div w) % 2 = 1 THEN x - w ELSE x + w

\* a | b
RECURSIVE Or(_, _)
Or(a, b) ==
    IF a = 0 THEN b
    ELSE IF b = 0 THEN a
    ELSE (IF (a % 2) + (b % 2) > 0 THEN 1 ELSE 0) + 2 * Or(a \div 2, b \div 2)

----------------------------------------------------------------------------
(* Protocol helpers *)

CrcInit == 65535
\* 0xA001 = 2^15 + 2^13 + 2^0, by the weights of its bits
CrcPolyBits == <<32768, 8192, 1>>
CrcMask == 65536
Delim == 126
MinFrameLen == 6
MinCrcLen == 4

\* one pass of the inner loop: crc = (crc >> 1) ^ 0xA001 if (crc & 1) else (crc >> 1)
CrcShift_NoPoly(crc) == crc \div 2
CrcShift(crc) ==
    IF crc % 2 = 1
    THEN Toggle(Toggle(Toggle(crc \div 2, CrcPolyBits[1]), CrcPolyBits[2]), CrcPolyBits[3])
    ELSE crc \div 2

\* crc ^= b, then the 8 passes of for _ in range(8)
CrcByte(crc, b) ==
    LET c0 == Xor(crc, b)
        c1 == CrcShift(c0)
        c2 == CrcShift(c1)
        c3 == CrcShift(c2)
        c4 == CrcShift(c3)
        c5 == CrcShift(c4)
        c6 == CrcShift(c5)
        c7 == CrcShift(c6)
    IN CrcShift(c7)

\* the for loop over data[lo..hi] (TLA+ indices), left to right
RECURSIVE CrcRange(_, _, _, _)
CrcRange(crc, data, lo, hi) ==
    IF lo > hi THEN crc
    ELSE IF lo = hi THEN CrcByte(crc, data[lo])
    ELSE LET mid == (lo + hi) \div 2
             c == CrcRange(crc, data, lo, mid)
         IN IF c >= 0 THEN CrcRange(c, data, mid + 1, hi) ELSE c

crc16_modbus(data) == CrcRange(CrcInit, data, 1, Len(data)) % CrcMask

\* int.from_bytes(b, "little") of a two-byte sequence
FromLittle(b) == b[1] + 256 * b[2]
FromBig(b) == 256 * b[1] + b[2]

verify_crc_BigEndian(frame) ==
    IF Len(frame) < MinCrcLen THEN FALSE
    ELSE crc16_modbus(Slice(frame, 1, Len(frame) - 2))
             = FromBig(Slice(frame, Len(frame) - 2, Len(frame)))

verify_crc_Len3(frame) ==
    IF Len(frame) < 3 THEN FALSE
    ELSE crc16_modbus(Slice(frame, 1, Len(frame) - 2))
             = FromLittle(Slice(frame, Len(frame) - 2, Len(frame)))

verify_crc(frame) ==
    IF Len(frame) < MinCrcLen THEN FALSE
    ELSE crc16_modbus(Slice(frame, 1, Len(frame) - 2))
             = FromLittle(Slice(frame, Len(frame) - 2, Len(frame)))

----------------------------------------------------------------------------
(* Frame decoders *)

TeleMinLen == 47
StatMinLen == 51

TeleSig == <<241, 241, 18, 47>>
StatSig_F1 == <<241, 241>>
StatSig == <<0, 241>>

\* the keys of the two dicts and the offset each is read at
TeleOffset ==
    [outdoor_ambient_c |-> 9, suction_temp_c |-> 11, defrost_coil_temp_c |-> 15,
     exhaust_temp_c |-> 25, heating_water_setpoint_c |-> 31, liquid_tube_temp_c |-> 41]

StatOffset ==
    [return_water_temp_c |-> 33, outlet_water_temp_c |-> 35, dhw_setpoint_c |-> 37]

NoReading == [kind |-> "none"]
Raised == [kind |-> "raise"]

Abs(v) == IF v < 0 THEN -v ELSE v

\* val / 10: the decimal with one fractional digit, sign kept apart
Div10_Raw(val) == [neg |-> val < 0, whole |-> Abs(val), tenth |-> 0]
Div10(val) == [neg |-> val < 0, whole |-> Abs(val) \div 10, tenth |-> Abs(val) % 10]

\* data[pos] or data[pos + 1] is an IndexError
Int16Raises(data, pos) == ~InRange(data, pos) \/ ~InRange(data, pos + 1)

get_int16_signed_NoWrap(data, pos) == Or(At(data, pos) * 256, At(data, pos + 1))

get_int16_signed(data, pos) ==
    LET val == Or(At(data, pos) * 256, At(data, pos + 1))
    IN IF val > 32767 THEN val - 65536 ELSE val

\* the dict literal: every field read in turn, then / 10
ReadFields(kind, frame, offset) ==
    IF \E k \in DOMAIN offset : Int16Raises(frame, offset[k]) THEN Raised
    ELSE [kind |-> kind,
          fields |-> [k \in DOMAIN offset |-> Div10(get_int16_signed(frame, offset[k]))]]

decode_telemetry_NoStandby(frame) ==
    IF Len(frame) < TeleMinLen \/ Slice(frame, 1, 5) # TeleSig THEN NoReading
    ELSE ReadFields("tele", frame, TeleOffset)

decode_telemetry(frame) ==
    IF Len(frame) < TeleMinLen \/ Slice(frame, 1, 5) # TeleSig THEN NoReading
    ELSE IF ~InRange(frame, 9) THEN Raised
    ELSE IF At(frame, 9) = 0 /\ ~InRange(frame, 10) THEN Raised
    ELSE IF At(frame, 9) = 0 /\ At(frame, 10) = 0 THEN NoReading
    ELSE ReadFields("tele", frame, TeleOffset)

decode_status_TeleLen(frame) ==
    IF Len(frame) < TeleMinLen \/ Slice(frame, 1, 3) # StatSig THEN NoReading
    ELSE ReadFields("status", frame, StatOffset)

decode_status(frame) ==
    IF Len(frame) < StatMinLen \/ Slice(frame, 1, 3) # StatSig THEN NoReading
    ELSE ReadFields("status", frame, StatOffset)

----------------------------------------------------------------------------
(* Frame capture: the split of the captured buffer (lines 98-107) *)

\* idx = [i for i, b in enumerate(buf) if b == 0x7E]
DelimIdx_FirstOnly(b) ==
    LET IsFirstDelim(i) == At(b, i) = Delim /\ \A j \in 0..(i - 1) : At(b, j) # Delim
    IN SelectSeq([i \in 1..Len(b) |-> i - 1], IsFirstDelim)

DelimIdx(b) ==
    LET IsDelim(i) == At(b, i) = Delim
    IN SelectSeq([i \in 1..Len(b) |-> i - 1], IsDelim)

\* the slices fr = buf[start:end], one per entry of idx, with their start
Candidates_ThroughNext(b) ==
    LET idx == DelimIdx(b)
    IN [i \in 1..Len(idx) |->
           [start |-> idx[i],
            fr |-> Slice(b, idx[i], IF i < Len(idx) THEN idx[i + 1] + 1 ELSE Len(b))]]

Candidates_FromFirst(b) ==
    LET idx == DelimIdx(b)
    IN [i \in 1..Len(idx) |->
           [start |-> idx[i],
            fr |-> Slice(b, IF i = 1 THEN 0 ELSE idx[i],
                         IF i < Len(idx) THEN idx[i + 1] ELSE Len(b))]]

Candidates(b) ==
    LET idx == DelimIdx(b)
    IN [i \in 1..Len(idx) |->
           [start |-> idx[i],
            fr |-> Slice(b, idx[i], IF i < Len(idx) THEN idx[i + 1] ELSE Len(b))]]

\* len(fr) >= 6 and verify_crc(fr): verify_crc is evaluated only when the left
\* operand is true
CrcAttempted_Always(fr) == TRUE
CrcAttempted(fr) == Len(fr) >= MinFrameLen

Accepted_NoCrc(fr) == Len(fr) >= MinFrameLen
Accepted(fr) == Len(fr) >= MinFrameLen /\ verify_crc(fr)

\* the for loop of lines 101-106 over a buffer
SplitBuffer(b) ==
    LET cs == Candidates(b)
        frs == [i \in 1..Len(cs) |-> cs[i].fr]
    IN [cands |-> cs,
        crcSeen |-> SelectSeq(frs, CrcAttempted),
        frames |-> SelectSeq(frs, Accepted)]

----------------------------------------------------------------------------
(* Initial state of main(): nothing opened, nothing captured *)

MainInit ==
    /\ pc = "open"
    /\ ser = "none"
    /\ inbuf = <<>>
    /\ arrived = 0
    /\ buf = <<>>
    /\ cands = <<>>
    /\ crcSeen = <<>>
    /\ frames = <<>>
    /\ handed = [tele |-> <<>>, status |-> <<>>]
    /\ tele_data = NoReading
    /\ status_data = NoReading
    /\ points = <<>>
    /\ written = <<>>
    /\ logged = "none"
    /\ fails = 0
    /\ signal = FALSE
    /\ sinceStart = <<>>
    /\ dropped = FALSE
    /\ stale = {}

----------------------------------------------------------------------------
(* What the bus delivers: whole wire frames and stray bytes. The checksum  *)
(* bytes are those the heat pump would send (CRC-16/MODBUS of the body).   *)

MaxChunks == 3

\* 0x7E, then a body of n bytes: sig at offset 1, the 16-bit values of vals
\* big-endian at their offsets, zero elsewhere
WireBody(n, sig, vals) ==
    [i \in 1..(n + 1) |->
        LET j == i - 1
        IN IF j = 0 THEN Delim
           ELSE IF j <= Len(sig) THEN sig[j]
           ELSE IF \E o \in DOMAIN vals : j = o THEN vals[j] \div 256
           ELSE IF \E o \in DOMAIN vals : j = o + 1 THEN vals[j - 1] % 256
           ELSE 0]

TeleA ==
    WireBody(44, TeleSig, (9 :> 100) @@ (11 :> 100) @@ (15 :> 100) @@ (25 :> 100)
                              @@ (31 :> 100) @@ (41 :> 100)) \o <<13, 228>>

TeleB ==
    WireBody(44, TeleSig, (9 :> 32768) @@ (11 :> 1) @@ (15 :> 65535) @@ (25 :> 450)
                              @@ (31 :> 350) @@ (41 :> 65436)) \o <<19, 195>>

TeleStandby ==
    WireBody(44, TeleSig, (9 :> 0) @@ (11 :> 100) @@ (15 :> 100) @@ (25 :> 100)
                              @@ (31 :> 100) @@ (41 :> 100)) \o <<88, 42>>

StatA == WireBody(48, StatSig, (33 :> 100) @@ (35 :> 100) @@ (37 :> 100)) \o <<15, 75>>

\* a checksummed frame too short for either decoder
ShortValid == <<126, 241, 241, 18, 47, 46, 87>>

\* a delimiter-bounded region of exactly 5 bytes whose last two bytes are the
\* checksum of its two payload bytes
Short5 == <<126, 1, 2, 129, 225>>

\* bytes on the bus with no delimiter among them
Noise == <<0, 85>>

Chunks == {TeleA, TeleB, TeleStandby, StatA, ShortValid, Short5, Noise}

----------------------------------------------------------------------------
(* main(): selection of the most recent decodable frame per kind *)

\* for f in reversed(frames): if len(f) >= 47: tele = decode_telemetry(f); if tele: break
\* i is the TLA+ index of the frame the loop is at; h the frames decoded so far
RECURSIVE ScanTele_Forward(_, _, _)
ScanTele_Forward(fs, i, h) ==
    LET k == Len(fs) + 1 - i
    IN IF i < 1 THEN [data |-> NoReading, handed |-> h, raised |-> FALSE]
       ELSE IF Len(fs[k]) >= TeleMinLen
       THEN LET tele == decode_telemetry(fs[k])
            IN IF tele.kind = "raise"
               THEN [data |-> NoReading, handed |-> Append(h, fs[k]), raised |-> TRUE]
               ELSE IF tele.kind = "tele"
               THEN [data |-> tele, handed |-> Append(h, fs[k]), raised |-> FALSE]
               ELSE ScanTele_Forward(fs, i - 1, Append(h, fs[k]))
       ELSE ScanTele_Forward(fs, i - 1, h)

RECURSIVE ScanTele(_, _, _)
ScanTele(fs, i, h) ==
    IF i < 1 THEN [data |-> NoReading, handed |-> h, raised |-> FALSE]
    ELSE IF Len(fs[i]) >= TeleMinLen
    THEN LET tele == decode_telemetry(fs[i])
         IN IF tele.kind = "raise"
            THEN [data |-> NoReading, handed |-> Append(h, fs[i]), raised |-> TRUE]
            ELSE IF tele.kind = "tele"
            THEN [data |-> tele, handed |-> Append(h, fs[i]), raised |-> FALSE]
            ELSE ScanTele(fs, i - 1, Append(h, fs[i]))
    ELSE ScanTele(fs, i - 1, h)

\* for f in reversed(frames): if len(f) >= 51: stat = decode_status(f); if stat: break
RECURSIVE ScanStat(_, _, _)
ScanStat(fs, i, h) ==
    IF i < 1 THEN [data |-> NoReading, handed |-> h, raised |-> FALSE]
    ELSE IF Len(fs[i]) >= StatMinLen
    THEN LET stat == decode_status(fs[i])
         IN IF stat.kind = "raise"
            THEN [data |-> NoReading, handed |-> Append(h, fs[i]), raised |-> TRUE]
            ELSE IF stat.kind = "status"
            THEN [data |-> stat, handed |-> Append(h, fs[i]), raised |-> FALSE]
            ELSE ScanStat(fs, i - 1, Append(h, fs[i]))
    ELSE ScanStat(fs, i - 1, h)

----------------------------------------------------------------------------
(* main(): the process *)

FnIdle == fn = "none" /\ arg = <<>> /\ out = NoReading

Init == MainInit /\ FnIdle

loopVars == <<buf, cands, crcSeen, frames, handed, tele_data, status_data, points, written,
              sinceStart, dropped, stale>>

Connecting == {"open", "retry", "opened"}

Sampling == {"capture", "poll", "select", "write", "sleep"}

\* the loop is left for the except/finally clauses, which read none of its locals
LeaveLoop ==
    /\ pc' = "finally"
    /\ buf' = <<>>
    /\ cands' = <<>>
    /\ crcSeen' = <<>>
    /\ frames' = <<>>
    /\ handed' = [tele |-> <<>>, status |-> <<>>]
    /\ tele_data' = NoReading
    /\ status_data' = NoReading
    /\ points' = <<>>
    /\ written' = <<>>
    /\ sinceStart' = <<>>
    /\ dropped' = FALSE
    /\ stale' = {}

\* the bus delivers a chunk into the open link's input buffer
Arrive ==
    /\ ser = "open"
    /\ pc # "exit"
    /\ arrived < MaxChunks
    /\ \E c \in Chunks :
          /\ inbuf' = inbuf \o c
          /\ sinceStart' = IF pc \in {"poll", "select", "write", "sleep"}
                           THEN sinceStart \o c
                           ELSE sinceStart
    /\ arrived' = arrived + 1
    /\ UNCHANGED <<pc, ser, buf, cands, crcSeen, frames, handed, tele_data, status_data,
                   points, written, dropped, stale, logged, fails, signal, fnVars>>

MaxFails == 2

\* serial.Serial(...) returns the opened link
OpenOk ==
    /\ pc = "open"
    /\ ser' = "open"
    /\ fails' = 0
    /\ logged' = "none"
    /\ pc' = "opened"
    /\ UNCHANGED <<signal, inbuf, arrived, loopVars, fnVars>>

\* serial.Serial(...) raises SerialException: logger.error("Cannot open serial port")
OpenFail_Exit ==
    /\ pc = "open"
    /\ fails < MaxFails
    /\ fails' = fails + 1
    /\ logged' = "open_failed"
    /\ pc' = "exit"
    /\ UNCHANGED <<signal, ser, inbuf, arrived, loopVars, fnVars>>
OpenFail ==
    /\ pc = "open"
    /\ fails < MaxFails
    /\ fails' = fails + 1
    /\ logged' = "open_failed"
    /\ pc' = "retry"
    /\ UNCHANGED <<signal, ser, inbuf, arrived, loopVars, fnVars>>

\* time.sleep(10), then while ser is None
RetrySleep ==
    /\ pc = "retry"
    /\ logged' = "none"
    /\ pc' = IF ser = "none" THEN "open" ELSE "capture"
    /\ UNCHANGED <<ser, inbuf, arrived, fails, signal, loopVars, fnVars>>

\* ser.flushInput(); ser.flushOutput(); logger.info("Serial port opened successfully");
\* the while loop ends and the try is entered
FlushAfterOpen ==
    /\ pc = "opened"
    /\ inbuf' = <<>>
    /\ logged' = "opened"
    /\ pc' = "capture"
    /\ UNCHANGED <<ser, arrived, fails, signal, loopVars, fnVars>>

\* capture_frames: ser.reset_input_buffer(); buf = b""; t0 = time.time().
\* points, tele_data and status_data keep the previous iteration's values until
\* lines 136-138; frames is not read again before line 135 rebinds it, and the
\* records of the previous split, selection and write are over
CaptureStart_NoReset ==
    /\ pc = "capture"
    /\ dropped' = FALSE
    /\ sinceStart' = <<>>
    /\ buf' = <<>>
    /\ cands' = <<>>
    /\ crcSeen' = <<>>
    /\ frames' = <<>>
    /\ handed' = [tele |-> <<>>, status |-> <<>>]
    /\ written' = <<>>
    /\ stale' = {}
    /\ logged' = "none"
    /\ pc' = "poll"
    /\ UNCHANGED <<ser, inbuf, arrived, tele_data, status_data, points, fails, signal, fnVars>>
CaptureStart ==
    /\ pc = "capture"
    /\ dropped' = (inbuf # <<>>)
    /\ inbuf' = <<>>
    /\ sinceStart' = <<>>
    /\ buf' = <<>>
    /\ cands' = <<>>
    /\ crcSeen' = <<>>
    /\ frames' = <<>>
    /\ handed' = [tele |-> <<>>, status |-> <<>>]
    /\ written' = <<>>
    /\ stale' = {}
    /\ logged' = "none"
    /\ pc' = "poll"
    /\ UNCHANGED <<ser, arrived, tele_data, status_data, points, fails, signal, fnVars>>

\* one pass of the while loop: buf += ser.read(ser.in_waiting) when bytes wait
Poll ==
    /\ pc = "poll"
    /\ buf' = buf \o inbuf
    /\ inbuf' = <<>>
    /\ logged' = "none"
    /\ UNCHANGED <<pc, ser, arrived, fails, signal, cands, crcSeen, frames, handed, tele_data,
                   status_data, points, written, sinceStart, dropped, stale, fnVars>>

\* the window is over: the split, return frames; points = []; tele_data = None;
\* status_data = None
HeldKinds == {k \in {"tele", "status"} : tele_data.kind = k \/ status_data.kind = k}

CaptureReturn_NoReset ==
    /\ pc = "poll"
    /\ \E r \in {SplitBuffer(buf)} :
          /\ cands' = r.cands
          /\ crcSeen' = r.crcSeen
          /\ frames' = r.frames
    /\ stale' = HeldKinds
    /\ logged' = "none"
    /\ pc' = "select"
    /\ UNCHANGED <<ser, inbuf, arrived, fails, signal, buf, handed, written, sinceStart, dropped,
                   tele_data, status_data, points, fnVars>>
CaptureReturn ==
    /\ pc = "poll"
    /\ \E r \in {SplitBuffer(buf)} :
          /\ cands' = r.cands
          /\ crcSeen' = r.crcSeen
          /\ frames' = r.frames
    /\ stale' = HeldKinds
    /\ tele_data' = NoReading
    /\ status_data' = NoReading
    /\ points' = <<>>
    /\ logged' = "none"
    /\ pc' = "select"
    /\ UNCHANGED <<ser, inbuf, arrived, fails, signal, buf, handed, written, sinceStart, dropped,
                   fnVars>>

\* the Point built when a reading is present (its time is the one utcnow() call)
MkPoint_TeleOnly(tele, stat) == [tele |-> tele, status |-> NoReading]
MkPoint(tele, stat) == [tele |-> tele, status |-> stat]

\* the two reversed scans, then the assembly of the point (lines 141-167); an
\* exception in a decoder leaves the loop through except Exception
Select ==
    /\ pc = "select"
    /\ LET t == ScanTele(frames, Len(frames), <<>>)
           st == ScanStat(frames, Len(frames), <<>>)
       IN IF t.raised \/ st.raised
          THEN /\ LeaveLoop
               /\ logged' = "fault"
          ELSE /\ handed' = [tele |-> t.handed, status |-> st.handed]
               /\ tele_data' = (IF t.data.kind = "tele" THEN t.data ELSE tele_data)
               /\ status_data' = (IF st.data.kind = "status" THEN st.data ELSE status_data)
               /\ points' = IF tele_data'.kind = "tele" \/ status_data'.kind = "status"
                            THEN points \o <<MkPoint(tele_data', status_data')>>
                            ELSE points
               /\ logged' = "none"
               /\ pc' = "write"
               /\ UNCHANGED <<buf, cands, crcSeen, frames, written, sinceStart, dropped, stale>>
    /\ UNCHANGED <<ser, inbuf, arrived, fails, signal, fnVars>>

\* if points: write_api.write(...) returns; logger.info("Successfully wrote ...")
WriteOk ==
    /\ pc = "write"
    /\ points # <<>>
    /\ written' = points
    /\ logged' = "wrote"
    /\ pc' = "sleep"
    /\ UNCHANGED <<ser, inbuf, arrived, fails, signal, buf, cands, crcSeen, frames, handed,
                   tele_data, status_data, points, sinceStart, dropped, stale, fnVars>>

\* if points: write_api.write(...) raises: logger.error("InfluxDB write failed")
WriteFail_Fatal ==
    /\ pc = "write"
    /\ points # <<>>
    /\ LeaveLoop
    /\ logged' = "fault"
    /\ UNCHANGED <<ser, inbuf, arrived, fails, signal, fnVars>>
WriteFail ==
    /\ pc = "write"
    /\ points # <<>>
    /\ logged' = "write_failed"
    /\ pc' = "sleep"
    /\ UNCHANGED <<ser, inbuf, arrived, fails, signal, loopVars, fnVars>>

\* else: logger.debug("No valid telemetry or status frames ...")
NoWrite_Exit ==
    /\ pc = "write"
    /\ points = <<>>
    /\ LeaveLoop
    /\ logged' = "no_data"
    /\ UNCHANGED <<ser, inbuf, arrived, fails, signal, fnVars>>
NoWrite_NoSleep ==
    /\ pc = "write"
    /\ points = <<>>
    /\ logged' = "no_data"
    /\ pc' = "capture"
    /\ UNCHANGED <<ser, inbuf, arrived, loopVars, fails, signal, fnVars>>
NoWrite ==
    /\ pc = "write"
    /\ points = <<>>
    /\ logged' = "no_data"
    /\ pc' = "sleep"
    /\ UNCHANGED <<ser, inbuf, arrived, fails, signal, loopVars, fnVars>>

\* time.sleep(7.0), then the next iteration
Sleep ==
    /\ pc = "sleep"
    /\ logged' = "none"
    /\ pc' = "capture"
    /\ UNCHANGED <<ser, inbuf, arrived, fails, signal, loopVars, fnVars>>

\* KeyboardInterrupt inside the try block: logger.info("Shutdown requested by user")
InterruptInLoop ==
    /\ pc \in Sampling
    /\ LeaveLoop
    /\ signal' = TRUE
    /\ logged' = "shutdown"
    /\ UNCHANGED <<ser, inbuf, arrived, fails, fnVars>>

\* KeyboardInterrupt before the try block (lines 115-131): no handler and no
\* finally clause is in force, the exception leaves main()
InterruptConnecting ==
    /\ pc \in Connecting
    /\ signal' = TRUE
    /\ logged' = "none"
    /\ pc' = "exit"
    /\ UNCHANGED <<ser, inbuf, arrived, fails, loopVars, fnVars>>

\* a SerialException from reset_input_buffer / in_waiting / read: except Exception,
\* logger.exception("Unexpected error in main loop")
IoFault_Reconnect ==
    /\ pc \in {"capture", "poll"}
    /\ pc' = "open"
    /\ ser' = "none"
    /\ logged' = "fault"
    /\ inbuf' = <<>>
    /\ UNCHANGED <<arrived, fails, signal, loopVars, fnVars>>
IoFault ==
    /\ pc \in {"capture", "poll"}
    /\ LeaveLoop
    /\ logged' = "fault"
    /\ UNCHANGED <<ser, inbuf, arrived, fails, signal, fnVars>>

\* finally: if ser and ser.is_open: ser.close(); logger.info("Serial port closed");
\* the closed link holds no input
Finally_NoClose ==
    /\ pc = "finally"
    /\ logged' = "none"
    /\ pc' = "exit"
    /\ UNCHANGED <<ser, inbuf, arrived, fails, signal, loopVars, fnVars>>
Finally ==
    /\ pc = "finally"
    /\ ser' = IF ser = "open" THEN "closed" ELSE ser
    /\ logged' = IF ser = "open" THEN "closed" ELSE "none"
    /\ inbuf' = <<>>
    /\ pc' = "exit"
    /\ UNCHANGED <<arrived, fails, signal, loopVars, fnVars>>

Next ==
    \/ Arrive
    \/ OpenOk
    \/ OpenFail
    \/ RetrySleep
    \/ FlushAfterOpen
    \/ CaptureStart
    \/ Poll
    \/ CaptureReturn
    \/ Select
    \/ WriteOk
    \/ WriteFail
    \/ NoWrite
    \/ Sleep
    \/ InterruptInLoop
    \/ InterruptConnecting
    \/ IoFault
    \/ Finally

Spec == Init /\ [][Next]_vars

----------------------------------------------------------------------------
(* verify_crc applied to frames built around a payload, and to the same    *)
(* frames with one bit of the payload or of the checksum flipped           *)

MaxPayload == 3

CrcBytes == {0, 1, 126, 128, 255}

CrcPayloads == UNION {[1..n -> CrcBytes] : n \in 0..MaxPayload}

Le16(v) == <<v % 256, v \div 256>>

BuildFrame(p) == <<Delim>> \o p \o Le16(crc16_modbus(p))

\* bit k of the bytes after the delimiter, counted from the low bit of frame[1]
FlipBit(frame, k) ==
    [frame EXCEPT ![2 + (k \div 8)] = Xor(@, 2 ^ (k % 8))]

InitCrc ==
    /\ MainInit
    /\ fn = "payload"
    /\ arg \in {[p |-> p, frame |-> <<>>, bit |-> 0] : p \in CrcPayloads}
    /\ out = FALSE

VerifyBuilt ==
    /\ fn = "payload"
    /\ LET frame == BuildFrame(arg.p)
       IN /\ arg' = [arg EXCEPT !.frame = frame]
          /\ out' = verify_crc(frame)
    /\ fn' = "built"
    /\ UNCHANGED mainVars

VerifyFlipped ==
    /\ fn = "built"
    /\ out = TRUE
    /\ \E k \in 0..(8 * (Len(arg.frame) - 1) - 1) :
          LET frame == FlipBit(arg.frame, k)
          IN /\ arg' = [arg EXCEPT !.frame = frame, !.bit = k]
             /\ out' = verify_crc(frame)
    /\ fn' = "flipped"
    /\ UNCHANGED mainVars

NextCrc == VerifyBuilt \/ VerifyFlipped

SpecCrc == InitCrc /\ [][NextCrc]_vars

\* C2 as stated: for every payload p, the empty one included, verify_crc accepts
\* 0x7E ++ p ++ le16(crc16_modbus(p)).
C2_RoundTripAnyLength == fn = "built" => out = TRUE

\* C2 amended: for every payload p of at least one byte, verify_crc accepts
\* 0x7E ++ p ++ le16(crc16_modbus(p)); for the empty payload the frame has 3 bytes
\* and verify_crc rejects it.
C2_RoundTrip ==
    fn = "built" =>
        /\ arg.frame = <<Delim>> \o arg.p \o Le16(crc16_modbus(arg.p))
        /\ out = (Len(arg.p) >= 1)

C2_Witness == fn = "built" /\ Len(arg.p) = MaxPayload /\ out = TRUE

\* C3: flipping any single bit of the payload or of the two checksum bytes of an
\* accepted frame 0x7E ++ p ++ le16(crc16_modbus(p)) yields a frame verify_crc rejects.
C3_SingleBitDetected ==
    fn = "flipped" =>
        /\ Len(arg.frame) = Len(arg.p) + 3
        /\ arg.frame # BuildFrame(arg.p)
        /\ out = FALSE

C3_Witness ==
    /\ fn = "flipped"
    /\ Len(arg.p) >= 2
    /\ arg.bit < 8
    /\ out = FALSE

----------------------------------------------------------------------------
(* The decoders applied to frames of every length up to a little past the  *)
(* longest minimum, with right and wrong signatures, standby and other     *)
(* values at offsets 9 and 10, and a position-dependent fill elsewhere;    *)
(* get_int16_signed applied to every pair of bytes                         *)

MaxExtra == 1

DecodeSigs == {TeleSig, StatSig, <<241, 241, 18, 46>>, <<240, 241, 18, 47>>,
               <<0, 240>>, <<0, 241, 18, 47>>}

DecodePairs == {<<0, 0>>, <<0, 1>>, <<1, 0>>, <<128, 0>>, <<255, 255>>,
                <<0, 100>>, <<127, 255>>}

DecodeFills == {0, 128}

MkFrame(len, sig, pair, fill) ==
    [i \in 1..len |->
        LET j == i - 1
        IN IF j = 0 THEN Delim
           ELSE IF j <= Len(sig) THEN sig[j]
           ELSE IF j = 9 THEN pair[1]
           ELSE IF j = 10 THEN pair[2]
           ELSE (fill + (3 * j)) % 256]

DecodeInputs ==
    {MkFrame(len, sig, pair, fill) :
        len \in 0..(StatMinLen + MaxExtra), sig \in DecodeSigs,
        pair \in DecodePairs, fill \in DecodeFills}

InitDecode ==
    /\ MainInit
    /\ \/ /\ fn = "frame"
          /\ arg \in DecodeInputs
       \/ /\ fn = "pair"
          /\ arg \in (0..255) \X (0..255)
    /\ out = NoReading

ApplyDecodeTelemetry ==
    /\ fn = "frame"
    /\ fn' = "decode_telemetry"
    /\ out' = decode_telemetry(arg)
    /\ UNCHANGED <<arg, mainVars>>

ApplyDecodeStatus ==
    /\ fn = "frame"
    /\ fn' = "decode_status"
    /\ out' = decode_status(arg)
    /\ UNCHANGED <<arg, mainVars>>

ApplyGetInt16 ==
    /\ fn = "pair"
    /\ fn' = "get_int16_signed"
    /\ out' = [kind |-> "int", val |-> get_int16_signed(arg, 0)]
    /\ UNCHANGED <<arg, mainVars>>

NextDecode == ApplyDecodeTelemetry \/ ApplyDecodeStatus \/ ApplyGetInt16

SpecDecode == InitDecode /\ [][NextDecode]_vars

\* the big-endian two's-complement value of the two bytes at Python offset pos
S16At(frame, pos) ==
    LET u == (256 * frame[pos + 1]) + frame[pos + 2]
    IN IF u <= 32767 THEN u ELSE u - 65536

\* v tenths of a degree as a decimal
Tenths(v) ==
    IF v < 0 THEN [neg |-> TRUE, whole |-> (-v) \div 10, tenth |-> (-v) % 10]
    ELSE [neg |-> FALSE, whole |-> v \div 10, tenth |-> v % 10]

TeleAccepts(frame) ==
    /\ Len(frame) >= 47
    /\ frame[2] = 241 /\ frame[3] = 241 /\ frame[4] = 18 /\ frame[5] = 47
    /\ ~(frame[10] = 0 /\ frame[11] = 0)

StatAccepts(frame) ==
    /\ Len(frame) >= 51
    /\ frame[2] = 0 /\ frame[3] = 241

\* C5: decode_telemetry returns a reading exactly when the frame has at least 47
\* bytes, frame[1:5] is F1 F1 12 2F and frame[9], frame[10] are not both zero; in
\* every other case it returns no reading, and it never raises.
C5_TelemetryAccepts ==
    fn = "decode_telemetry" =>
        out.kind = (IF TeleAccepts(arg) THEN "tele" ELSE "none")

\* a frame that passes length and signature but has bytes 9 and 10 both zero
C5_Witness ==
    /\ fn = "decode_telemetry"
    /\ Len(arg) >= 47
    /\ SubSeq(arg, 2, 5) = <<241, 241, 18, 47>>
    /\ arg[10] = 0 /\ arg[11] = 0
    /\ out.kind = "none"

\* C6: decode_status returns a reading exactly when the frame has at least 51
\* bytes and frame[1:3] is 00 F1; otherwise it returns no reading, and it never
\* raises. The reading has exactly the three fields read at offsets 33, 35, 37.
C6_StatusAccepts ==
    fn = "decode_status" =>
        /\ out.kind = (IF StatAccepts(arg) THEN "status" ELSE "none")
        /\ out.kind = "status" =>
              out.fields =
                  [return_water_temp_c |-> Tenths(S16At(arg, 33)),
                   outlet_water_temp_c |-> Tenths(S16At(arg, 35)),
                   dhw_setpoint_c |-> Tenths(S16At(arg, 37))]

C6_Witness ==
    /\ fn = "decode_status"
    /\ Len(arg) = 51
    /\ out.kind = "status"
    /\ out.fields.return_water_temp_c.neg

\* C7: get_int16_signed returns 256*hi+lo when that is at most 32767 and
\* 256*hi+lo-65536 otherwise, a value in -32768..32767; the reported value is that
\* integer in tenths (0x8000 gives -3276.8, 0x0001 gives 0.1); the six telemetry
\* fields are read at offsets 9, 11, 15, 25, 31, 41 and no read of an accepted frame
\* is past its end.
C7_SignRecovery ==
    /\ fn = "get_int16_signed" =>
          /\ out.val = (IF (256 * arg[1]) + arg[2] <= 32767
                        THEN (256 * arg[1]) + arg[2]
                        ELSE (256 * arg[1]) + arg[2] - 65536)
          /\ out.val \in -32768..32767
    /\ (fn = "decode_telemetry" /\ TeleAccepts(arg)) =>
          /\ out.kind = "tele"
          /\ out.fields =
                 [outdoor_ambient_c |-> Tenths(S16At(arg, 9)),
                  suction_temp_c |-> Tenths(S16At(arg, 11)),
                  defrost_coil_temp_c |-> Tenths(S16At(arg, 15)),
                  exhaust_temp_c |-> Tenths(S16At(arg, 25)),
                  heating_water_setpoint_c |-> Tenths(S16At(arg, 31)),
                  liquid_tube_temp_c |-> Tenths(S16At(arg, 41))]
          /\ (arg[10] = 128 /\ arg[11] = 0) =>
                 out.fields.outdoor_ambient_c = [neg |-> TRUE, whole |-> 3276, tenth |-> 8]
          /\ (arg[10] = 0 /\ arg[11] = 1) =>
                 out.fields.outdoor_ambient_c = [neg |-> FALSE, whole |-> 0, tenth |-> 1]
    /\ (fn = "decode_status" /\ StatAccepts(arg)) => out.kind = "status"

C7_Witness ==
    /\ fn = "decode_telemetry"
    /\ Len(arg) = 47
    /\ arg[10] = 128 /\ arg[11] = 0
    /\ out.kind = "tele"
    /\ out.fields.outdoor_ambient_c = [neg |-> TRUE, whole |-> 3276, tenth |-> 8]

----------------------------------------------------------------------------
(* The split applied to every buffer of a few bytes over a delimiter and   *)
(* two other values, and to short well-formed frames with such bytes       *)
(* before and after them                                                   *)

MaxBuf == 6
MaxPad == 1

SplitBytes == {126, 0, 85}

SplitPads == UNION {[1..n -> SplitBytes] : n \in 0..MaxPad}

SplitBuffers ==
    (UNION {[1..n -> SplitBytes] : n \in 0..MaxBuf})
    \cup {a \o BuildFrame(p) \o b : a \in SplitPads, b \in SplitPads, p \in [1..3 -> {0, 85}]}

InitSplit ==
    /\ MainInit
    /\ fn = "buffer"
    /\ arg \in SplitBuffers
    /\ out = [cands |-> <<>>, crcSeen |-> <<>>, frames |-> <<>>]

ApplySplit ==
    /\ fn = "buffer"
    /\ fn' = "split"
    /\ out' = SplitBuffer(arg)
    /\ UNCHANGED <<arg, mainVars>>

NextSplit == ApplySplit

SpecSplit == InitSplit /\ [][NextSplit]_vars

\* C8: a buffer with k bytes equal to 0x7E yields exactly k candidates, in arrival
\* order; each starts with 0x7E, contains no other 0x7E, and runs up to the next
\* 0x7E or, for the last one, to the end of the buffer; no two overlap.
C8_SplitShape ==
    fn = "split" =>
        /\ Len(out.cands) = Cardinality({i \in 1..Len(arg) : arg[i] = 126})
        /\ \A i \in 1..Len(out.cands) :
              LET c == out.cands[i]
                  last == c.start + Len(c.fr)
              IN /\ Len(c.fr) >= 1
                 /\ c.fr = SubSeq(arg, c.start + 1, last)
                 /\ c.fr[1] = 126
                 /\ \A j \in 2..Len(c.fr) : c.fr[j] # 126
                 /\ IF i < Len(out.cands)
                    THEN last = out.cands[i + 1].start /\ arg[last + 1] = 126
                    ELSE last = Len(arg)

C8_Witness ==
    /\ fn = "split"
    /\ Len(out.cands) = 3
    /\ Len(out.cands[2].fr) >= 2
    /\ out.cands[1].start > 0

\* C9 as stated: the candidates, concatenated in order, are the whole buffer.
C9_ConcatIsBuffer ==
    fn = "split" =>
        Concat([i \in 1..Len(out.cands) |-> out.cands[i].fr]) = arg

\* the number of bytes of b before its first 0x7E (all of them when it has none)
LeadLen(b) ==
    CHOOSE k \in 0..Len(b) :
        /\ \A i \in 1..k : b[i] # 126
        /\ k = Len(b) \/ b[k + 1] = 126

\* C9 amended: the candidates, concatenated in order, are the buffer from its first
\* 0x7E on; the bytes before the first 0x7E (the whole buffer when it has none) are
\* in no candidate, so the concatenation is the buffer exactly when the buffer is
\* empty or starts with 0x7E.
C9_ConcatIsSuffix ==
    fn = "split" =>
        /\ Concat([i \in 1..Len(out.cands) |-> out.cands[i].fr])
               = SubSeq(arg, LeadLen(arg) + 1, Len(arg))
        /\ (Concat([i \in 1..Len(out.cands) |-> out.cands[i].fr]) = arg)
               <=> (Len(arg) = 0 \/ arg[1] = 126)

C9_Witness ==
    /\ fn = "split"
    /\ Len(out.cands) = 2
    /\ LeadLen(arg) = 2
    /\ Concat([i \in 1..Len(out.cands) |-> out.cands[i].fr]) = SubSeq(arg, 3, Len(arg))

----------------------------------------------------------------------------
(* The capture / selection loop of main() *)

Range(q) == {q[i] : i \in 1..Len(q)}

\* the reading a telemetry frame stands for: six values at 9, 11, 15, 25, 31, 41
ExpectTele(frame) ==
    [kind |-> "tele",
     fields |-> [outdoor_ambient_c |-> Tenths(S16At(frame, 9)),
                 suction_temp_c |-> Tenths(S16At(frame, 11)),
                 defrost_coil_temp_c |-> Tenths(S16At(frame, 15)),
                 exhaust_temp_c |-> Tenths(S16At(frame, 25)),
                 heating_water_setpoint_c |-> Tenths(S16At(frame, 31)),
                 liquid_tube_temp_c |-> Tenths(S16At(frame, 41))]]

\* the reading a status frame stands for: three values at 33, 35, 37
ExpectStat(frame) ==
    [kind |-> "status",
     fields |-> [return_water_temp_c |-> Tenths(S16At(frame, 33)),
                 outlet_water_temp_c |-> Tenths(S16At(frame, 35)),
                 dhw_setpoint_c |-> Tenths(S16At(frame, 37))]]

MaxOf(S) == CHOOSE m \in S : \A n \in S : n <= m

\* C1: every frame handed to decode_telemetry or decode_status was returned by
\* capture_frames, has at least 6 bytes, is the slice of the captured buffer at one
\* of its 0x7E bytes, and ends with the little-endian crc16_modbus of frame[1:len-2],
\* which is when verify_crc accepts a frame of 4 bytes or more; no decoder runs on a
\* frame verify_crc rejects.
C1_DecodedAreValidated ==
    pc = "write" =>
        \A f \in Range(handed.tele) \cup Range(handed.status) :
            /\ f \in Range(frames)
            /\ Len(f) >= 6
            /\ \E k \in 1..Len(cands) :
                  /\ cands[k].fr = f
                  /\ buf[cands[k].start + 1] = 126
                  /\ cands[k].start + Len(f) <= Len(buf)
                  /\ SubSeq(buf, cands[k].start + 1, cands[k].start + Len(f)) = f
            /\ f[Len(f) - 1] + (256 * f[Len(f)]) = crc16_modbus(SubSeq(f, 2, Len(f) - 2))

\* both decoders were handed a frame, while a candidate long enough for a decoder
\* was dropped by the checksum
C1_Witness ==
    /\ pc = "write"
    /\ Len(handed.tele) >= 1
    /\ Len(handed.status) >= 1
    /\ \E i \in 1..Len(cands) :
          /\ Len(cands[i].fr) >= 47
          /\ cands[i].fr \notin Range(frames)

\* C4: for each kind, the reading used is the decode of the validated frame of the
\* window with the greatest position among those that decode for that kind, later
\* frames that do not decode notwithstanding, and it is absent exactly when none
\* decodes; the len >= 47 and len >= 51 guards of the loop change nothing.
C4_SelectsLatestDecodable ==
    pc = "write" =>
        LET T == {i \in 1..Len(frames) : TeleAccepts(frames[i])}
            S == {i \in 1..Len(frames) : StatAccepts(frames[i])}
        IN /\ tele_data = (IF T = {} THEN [kind |-> "none"]
                           ELSE ExpectTele(frames[MaxOf(T)]))
           /\ status_data = (IF S = {} THEN [kind |-> "none"]
                             ELSE ExpectStat(frames[MaxOf(S)]))

\* two different telemetry frames decode, a later frame does not, and the reading is
\* the second one's
C4_Witness ==
    /\ pc = "write"
    /\ Len(frames) = 3
    /\ TeleAccepts(frames[1])
    /\ TeleAccepts(frames[2])
    /\ ExpectTele(frames[1]) # ExpectTele(frames[2])
    /\ ~TeleAccepts(frames[3])
    /\ tele_data = ExpectTele(frames[2])

\* C10: verify_crc is evaluated on no candidate shorter than 6 bytes and no such
\* candidate reaches a decoder; a window whose only delimiter-bounded region has
\* exactly 5 bytes passes nothing to the CRC check and nothing to the decoders.
C10_ShortNeverChecked ==
    /\ \A f \in Range(crcSeen) : Len(f) >= 6
    /\ \A f \in Range(frames) \cup Range(handed.tele) \cup Range(handed.status) :
          Len(f) >= 6
    /\ \A i \in 1..Len(cands) :
          Len(cands[i].fr) < 6 =>
              cands[i].fr \notin Range(crcSeen) \cup Range(frames)
    /\ (pc \in {"select", "write"} /\ Len(cands) = 1 /\ Len(cands[1].fr) = 5) =>
          /\ crcSeen = <<>>
          /\ frames = <<>>
          /\ handed = [tele |-> <<>>, status |-> <<>>]

\* a window with one region of exactly 5 bytes went through the selection
C10_Witness ==
    /\ pc = "write"
    /\ Len(cands) = 1
    /\ Len(cands[1].fr) = 5
    /\ crcSeen = <<>>
    /\ handed = [tele |-> <<>>, status |-> <<>>]

----------------------------------------------------------------------------
(* verify_crc applied to arbitrary frames: every short sequence over a few  *)
(* byte values, and checksummed payloads behind any leading byte, with the  *)
(* checksum in either byte order                                            *)

MaxVerifyLen == 4

VerifyBytes == {0, 126, 255}

VerifyFrames ==
    UNION {[1..n -> VerifyBytes] : n \in 0..MaxVerifyLen}
    \cup {<<d>> \o p \o Le16(crc16_modbus(p)) : d \in {0, Delim}, p \in CrcPayloads}
    \cup {<<Delim>> \o p \o <<crc16_modbus(p) \div 256, crc16_modbus(p) % 256>> :
             p \in CrcPayloads}

InitVerify ==
    /\ MainInit
    /\ fn = "frame"
    /\ arg \in VerifyFrames
    /\ out = FALSE

ApplyVerifyCrc ==
    /\ fn = "frame"
    /\ out' = verify_crc(arg)
    /\ fn' = "verified"
    /\ UNCHANGED <<arg, mainVars>>

NextVerify == ApplyVerifyCrc

SpecVerify == InitVerify /\ [][NextVerify]_vars

\* C11: verify_crc returns false for every frame shorter than 4 bytes; for a frame of
\* 4 bytes or more it returns true exactly when crc16_modbus of the bytes between the
\* first byte and the last two equals the last two bytes read little-endian; it
\* returns a Boolean for every frame and changes neither its argument nor any state.
C11_VerifyCrcContract ==
    /\ [](fn = "verified" =>
            /\ out \in BOOLEAN
            /\ (Len(arg) < 4 => out = FALSE)
            /\ (Len(arg) >= 4) =>
                  (out = (crc16_modbus(SubSeq(arg, 2, Len(arg) - 2))
                             = arg[Len(arg) - 1] + (256 * arg[Len(arg)]))))
    /\ [][fn' = "verified" => (arg' = arg /\ UNCHANGED mainVars)]_vars

\* a frame of 5 bytes or more that does not start with the delimiter is accepted
C11_Witness ==
    /\ fn = "verified"
    /\ Len(arg) >= 5
    /\ arg[1] # 126
    /\ out = TRUE

----------------------------------------------------------------------------
(* crc16_modbus run statement by statement: the register after crc = 0xFFFF, *)
(* after each crc ^= b and after each pass of the inner loop                 *)

\* "123456789" and a MODBUS read request, whose CRC-16/MODBUS values are published
CrcKnown == {<<49, 50, 51, 52, 53, 54, 55, 56, 57>>, <<1, 3, 0, 0, 0, 10>>}

InitCrcRun ==
    /\ MainInit
    /\ fn = "crc"
    /\ arg \in {[data |-> d, i |-> 0, k |-> 8, reg |-> CrcInit] :
                   d \in CrcPayloads \cup CrcKnown}
    /\ out = 0

\* for b in data: crc ^= b
CrcXorIn ==
    /\ fn = "crc"
    /\ arg.k = 8
    /\ arg.i < Len(arg.data)
    /\ arg' = [arg EXCEPT !.reg = Xor(arg.reg, At(arg.data, arg.i)),
                          !.i = arg.i + 1,
                          !.k = 0]
    /\ UNCHANGED <<fn, out, mainVars>>

\* for _ in range(8): crc = (crc >> 1) ^ 0xA001 if (crc & 1) else (crc >> 1)
CrcShiftStep ==
    /\ fn = "crc"
    /\ arg.k < 8
    /\ arg' = [arg EXCEPT !.reg = CrcShift(arg.reg), !.k = arg.k + 1]
    /\ UNCHANGED <<fn, out, mainVars>>

\* return crc & 0xFFFF
CrcReturn ==
    /\ fn = "crc"
    /\ arg.k = 8
    /\ arg.i = Len(arg.data)
    /\ out' = arg.reg % CrcMask
    /\ fn' = "crc_done"
    /\ UNCHANGED <<arg, mainVars>>

NextCrcRun == CrcXorIn \/ CrcShiftStep \/ CrcReturn

SpecCrcRun == InitCrcRun /\ [][NextCrcRun]_vars

\* the CRC-16/MODBUS reference, one message bit at a time: the register is shifted
\* right and the polynomial 0xA001 added (mod 2, bit by bit) when the bit shifted
\* out differs from the message bit
RefBit(x, j) == (x \div (2 ^ j)) % 2

RECURSIVE RefXor(_, _, _)
RefXor(x, y, j) ==
    IF j > 15 THEN 0
    ELSE (((RefBit(x, j) + RefBit(y, j)) % 2) * (2 ^ j)) + RefXor(x, y, j + 1)

RefStep(reg, bit) ==
    IF (((reg % 2) + bit) % 2) = 1 THEN RefXor(reg \div 2, 40961, 0) ELSE reg \div 2

\* the eight message bits of byte b, low bit first
RefByte(reg, b) ==
    LET r1 == RefStep(reg, RefBit(b, 0))
        r2 == RefStep(r1, RefBit(b, 1))
        r3 == RefStep(r2, RefBit(b, 2))
        r4 == RefStep(r3, RefBit(b, 3))
        r5 == RefStep(r4, RefBit(b, 4))
        r6 == RefStep(r5, RefBit(b, 5))
        r7 == RefStep(r6, RefBit(b, 6))
    IN RefStep(r7, RefBit(b, 7))

\* the register after the first n bytes of the message
RECURSIVE RefCrcBytes(_, _)
RefCrcBytes(data, n) ==
    IF n = 0 THEN 65535
    ELSE LET r == RefCrcBytes(data, n - 1)
         IN IF r >= 0 THEN RefByte(r, data[n]) ELSE r

RefCrc(data) == RefCrcBytes(data, Len(data))

\* C12: crc16_modbus is CRC-16/MODBUS: the register starts at 0xFFFF, takes each byte
\* by XOR into its low byte and then 8 shift passes with 0xA001 on a shifted-out 1;
\* the register stays within 0..65535 at every step, so the final mask changes
\* nothing; the result is the reference value, and 0xFFFF for the empty input.
C12_CrcIsModbus ==
    /\ fn = "crc" =>
          /\ arg.reg \in 0..65535
          /\ (arg.i = 0) => (arg.reg = 65535)
          /\ (arg.k = 0) =>
                 /\ arg.reg \div 256 = RefCrc(SubSeq(arg.data, 1, arg.i - 1)) \div 256
                 /\ arg.reg % 256 # RefCrc(SubSeq(arg.data, 1, arg.i - 1)) % 256
                        \/ arg.data[arg.i] = 0
          /\ (arg.k = 8) => (arg.reg = RefCrc(SubSeq(arg.data, 1, arg.i)))
    /\ fn = "crc_done" =>
          /\ out = arg.reg
          /\ out \in 0..65535
          /\ out = RefCrc(arg.data)
          /\ out = crc16_modbus(arg.data)
          /\ (arg.data = <<>>) => (out = 65535)
          /\ (arg.data = <<49, 50, 51, 52, 53, 54, 55, 56, 57>>) => (out = 19255)
          /\ (arg.data = <<1, 3, 0, 0, 0, 10>>) => (out = 52677)

\* the run over "123456789" returned the published check value 0x4B37
C12_Witness ==
    /\ fn = "crc_done"
    /\ Len(arg.data) = 9
    /\ out = 19255

----------------------------------------------------------------------------
(* The capture / emit loop of main(): emission *)

HasTele == tele_data.kind = "tele"
HasStat == status_data.kind = "status"

TeleFieldNames ==
    {"outdoor_ambient_c", "suction_temp_c", "defrost_coil_temp_c", "exhaust_temp_c",
     "heating_water_setpoint_c", "liquid_tube_temp_c"}

StatFieldNames == {"return_water_temp_c", "outlet_water_temp_c", "dhw_setpoint_c"}

NoDelimiter(b) == \A i \in 1..Len(b) : b[i] # 126

\* C13: in every iteration the sink write is attempted exactly when a Telemetry or a
\* Status reading is present; at most one event is written per iteration; the event
\* carries the six telemetry fields iff the Telemetry reading is present and the three
\* status fields iff the Status reading is present. A window whose buffer holds no
\* 0x7E yields no candidate, both readings absent and no emission.
C13_EmissionRule ==
    /\ Len(points) <= 1
    /\ Len(written) <= 1
    /\ pc = "write" =>
          /\ (points # <<>>) = (HasTele \/ HasStat)
          /\ points # <<>> =>
                /\ (points[1].tele.kind = "tele") = HasTele
                /\ (points[1].status.kind = "status") = HasStat
                /\ HasTele => /\ points[1].tele = tele_data
                              /\ DOMAIN points[1].tele.fields = TeleFieldNames
                /\ HasStat => /\ points[1].status = status_data
                              /\ DOMAIN points[1].status.fields = StatFieldNames
    /\ pc = "sleep" =>
          /\ (logged \in {"wrote", "write_failed"}) = (HasTele \/ HasStat)
          /\ (logged = "no_data") = ~(HasTele \/ HasStat)
          /\ (logged = "wrote") => (written = points /\ Len(written) = 1)
          /\ (logged # "wrote") => (written = <<>>)
    /\ (pc \in {"select", "write", "sleep"} /\ NoDelimiter(buf)) =>
          /\ cands = <<>>
          /\ frames = <<>>
          /\ ~HasTele
          /\ ~HasStat
          /\ points = <<>>
          /\ written = <<>>
          /\ (pc = "sleep") => (logged = "no_data")

\* an event holding only the three status fields was written
C13_Witness ==
    /\ pc = "sleep"
    /\ logged = "wrote"
    /\ HasStat
    /\ ~HasTele
    /\ Len(written) = 1
    /\ written[1].tele.kind = "none"
    /\ DOMAIN written[1].status.fields = StatFieldNames

\* a window that received bytes but no 0x7E ended without emission
C13_NoDelimiterReached ==
    /\ pc = "sleep"
    /\ buf # <<>>
    /\ NoDelimiter(buf)
    /\ logged = "no_data"

----------------------------------------------------------------------------
(* The capture / emit loop of main(): a window with one telemetry and one  *)
(* status frame whose fields all hold raw 0x0064                            *)

Ten == [neg |-> FALSE, whole |-> 10, tenth |-> 0]

TeleAllTen ==
    [kind |-> "tele",
     fields |-> [outdoor_ambient_c |-> Ten, suction_temp_c |-> Ten,
                 defrost_coil_temp_c |-> Ten, exhaust_temp_c |-> Ten,
                 heating_water_setpoint_c |-> Ten, liquid_tube_temp_c |-> Ten]]

StatAllTen ==
    [kind |-> "status",
     fields |-> [return_water_temp_c |-> Ten, outlet_water_temp_c |-> Ten,
                 dhw_setpoint_c |-> Ten]]

\* f has the telemetry length and signature and raw 0x0064 in each of the six fields
Tele100(f) ==
    /\ Len(f) >= 47
    /\ SubSeq(f, 2, 5) = <<241, 241, 18, 47>>
    /\ \A o \in {9, 11, 15, 25, 31, 41} : f[o + 1] = 0 /\ f[o + 2] = 100

\* f has the status length and signature and raw 0x0064 in each of the three fields
Stat100(f) ==
    /\ Len(f) >= 51
    /\ SubSeq(f, 2, 3) = <<0, 241>>
    /\ \A o \in {33, 35, 37} : f[o + 1] = 0 /\ f[o + 2] = 100

\* the bytes of b from TLA+ index i on form a checksummed frame of n bytes
ValidFrameAt(b, i, n) ==
    /\ i + n - 1 <= Len(b)
    /\ b[i] = 126
    /\ b[i + n - 2] + (256 * b[i + n - 1]) = crc16_modbus(SubSeq(b, i + 1, i + n - 3))

TeleFramesIn(b) ==
    {i \in 1..Len(b) : b[i] = 126 /\ i + 46 <= Len(b)
                        /\ SubSeq(b, i + 1, i + 4) = <<241, 241, 18, 47>>
                        /\ ValidFrameAt(b, i, 47)}

StatFramesIn(b) ==
    {i \in 1..Len(b) : b[i] = 126 /\ i + 50 <= Len(b)
                        /\ SubSeq(b, i + 1, i + 2) = <<0, 241>>
                        /\ ValidFrameAt(b, i, 51)}

BothTenInOneEvent ==
    /\ tele_data = TeleAllTen
    /\ status_data = StatAllTen
    /\ points = <<[tele |-> TeleAllTen, status |-> StatAllTen]>>

ValidCands(P(_)) ==
    {k \in 1..Len(cands) : P(cands[k].fr) /\ verify_crc(cands[k].fr)}

----------------------------------------------------------------------------
(* main(): the states Connecting, Sampling, ShuttingDown and Closed *)

\* C15: a failed open of the link is logged and followed by the 10 s sleep and then
\* by another open; the process stays in Connecting through any number of
\* consecutive failures and leaves it only by a successful open, into Sampling with
\* the link open, or by a termination signal; no failed open ends the process or
\* starts Sampling without a link.
C15_ConnectingRetries ==
    /\ [](pc = "retry" => (logged = "open_failed" /\ fails >= 1 /\ ser = "none"))
    /\ [](pc \in Sampling => ser = "open")
    /\ [](ser = "none" => pc \in {"open", "retry", "exit"})
    /\ []((pc = "exit" /\ ser = "none") => signal)
    /\ [][(fails' = fails + 1) =>
             (pc = "open" /\ pc' = "retry" /\ logged' = "open_failed" /\ ser' = "none")]_vars
    /\ [][(pc = "retry") =>
             \/ (pc' = "open" /\ ~signal' /\ fails' = fails /\ ser' = "none")
             \/ (pc' = "exit" /\ signal')]_vars
    /\ [][(pc \in Connecting /\ pc' \notin Connecting) =>
             \/ (pc' = "capture" /\ ser' = "open" /\ ~signal')
             \/ (pc' = "exit" /\ signal')]_vars

\* after two consecutive failed opens the process is about to open again
C15_Witness ==
    /\ pc = "open"
    /\ fails >= 2
    /\ ser = "none"
    /\ ~signal

\* C16: a KeyboardInterrupt raised at any point of a Sampling iteration (capture
\* poll, selection, sink write or inter-cycle sleep) takes the process out of the
\* loop; the link is then closed and only after that the process ends; no capture
\* starts after the signal.
C16_ShutdownClosesLink ==
    /\ [][(pc \in Sampling /\ ~signal /\ signal') =>
             (pc' = "finally" /\ logged' = "shutdown" /\ ser' = "open")]_vars
    /\ []((signal /\ ser = "open") => pc \in {"finally", "exit"})
    /\ [](signal => pc \in {"finally", "exit"})
    /\ [](pc = "finally" => ser = "open")
    /\ [][(pc = "finally") =>
             \/ (pc' = "exit" /\ ser' = "closed" /\ logged' = "closed")
             \/ (pc' = "finally" /\ ser' = ser /\ buf' = buf /\ inbuf' # inbuf)]_vars
    /\ [][pc # "exit"]_vars
    /\ []((pc = "exit" /\ logged = "closed") => ser = "closed")

\* the process ended on a signal raised in the loop, after bytes had been received,
\* with the link closed
C16_Witness ==
    /\ pc = "exit"
    /\ signal
    /\ arrived >= 1
    /\ logged = "closed"
    /\ ser = "closed"

\* C17: when the sink write of an iteration raises, the failure is logged, the
\* iteration goes on to the 7 s sleep and the next capture starts as usual; the
\* event is written neither then nor later (each write hands over only the point
\* the same iteration built), and the link stays open.
C17_WriteFailureNotFatal ==
    /\ [][(pc = "write" /\ points # <<>> /\ pc' # pc /\ ~signal' /\ written' # points) =>
             /\ logged' = "write_failed"
             /\ pc' = "sleep"
             /\ points' = points
             /\ written' = <<>>
             /\ ser' = "open"]_vars
    /\ [][(logged' = "write_failed" /\ pc' # pc) => (pc = "write" /\ points # <<>>)]_vars
    /\ [](logged = "write_failed" => (pc = "sleep" /\ ser = "open" /\ written = <<>>))
    /\ [][(pc = "sleep" /\ logged = "write_failed" /\ pc' # pc) =>
             \/ (pc' = "capture" /\ ser' = "open" /\ written' = <<>>)
             \/ (pc' = "finally" /\ signal')]_vars
    /\ [](pc = "select" => (points = <<>> /\ written = <<>>))
    /\ [][(written' # written /\ written' # <<>>) =>
             (pc = "write" /\ written' = points /\ Len(points) = 1
                 /\ logged' = "wrote")]_vars

\* a write of an event with both readings failed and the iteration is at its sleep
C17_Witness ==
    /\ pc = "sleep"
    /\ logged = "write_failed"
    /\ Len(points) = 1
    /\ HasTele
    /\ HasStat
    /\ written = <<>>
    /\ ser = "open"

\* C18: the buffer a capture window returns holds only bytes the link received after
\* the window began, in their order of arrival; whatever sat in the link's input
\* buffer when the window began is discarded and is in no buffer of this or a later
\* window; a window in which nothing arrives returns an empty buffer and no error.
C18_CaptureIsFresh ==
    /\ [](pc \in {"poll", "select", "write", "sleep"} => (buf \o inbuf = sinceStart))
    /\ [][(pc = "capture" /\ pc' = "poll") =>
             (buf' = <<>> /\ inbuf' = <<>> /\ dropped' = (inbuf # <<>>))]_vars
    /\ [][(buf' # buf /\ buf' # <<>>) =>
             (pc = "poll" /\ buf' = buf \o inbuf /\ inbuf' = <<>>)]_vars
    /\ []((pc = "select" /\ sinceStart = <<>>) =>
             (buf = <<>> /\ cands = <<>> /\ frames = <<>> /\ logged # "fault"))

\* a window that began by discarding waiting bytes returned a non-empty buffer
C18_Witness ==
    /\ pc = "select"
    /\ dropped
    /\ buf # <<>>
    /\ buf = sinceStart

\* a window in which nothing arrived returned
C18_EmptyWindowReached ==
    /\ pc = "select"
    /\ arrived >= 1
    /\ sinceStart = <<>>
    /\ buf = <<>>

\* C19: at every exit of the process the serial link is not left open: a signal or
\* fault at any point after the link has been opened, the stretch between the
\* successful open and the entry into the Sampling loop included, leads to the link
\* being closed before the process exits.
C19_LinkClosedAtExit == (pc = "exit") => (ser # "open")

\* C20: a fault raised in a Sampling iteration outside the sink write (by the link
\* reads of the capture, say) is logged and ends the loop: no further iteration runs,
\* the process does not go back to Connecting and never reopens the link, it closes
\* the link and terminates.
C20_FaultTerminates ==
    /\ [][(pc \in Sampling /\ pc' \notin Sampling) =>
             /\ pc' = "finally"
             /\ ser' = "open"
             /\ (signal' /\ logged' = "shutdown") \/ (~signal' /\ logged' = "fault")]_vars
    /\ [](logged = "fault" => (pc = "finally" /\ ser = "open" /\ ~signal))
    /\ [][(pc \in {"finally", "exit"}) => (pc' \in {"finally", "exit"})]_vars
    /\ [][(pc = "finally" /\ pc' # pc) =>
             (pc' = "exit" /\ ser' = "closed" /\ logged' = "closed")]_vars
    /\ [][(ser # "none") => (ser' # "none")]_vars
    /\ [][(ser = "closed") => (ser' = "closed")]_vars
    /\ []((pc = "exit" /\ ~signal) => ser = "closed")

\* the process ended without any signal, after bytes had been received, link closed
C20_Witness ==
    /\ pc = "exit"
    /\ ~signal
    /\ arrived >= 1
    /\ ser = "closed"
    /\ logged = "closed"

----------------------------------------------------------------------------
(* main(): what keeps the process running and what stops it *)

Running == Connecting \cup Sampling

\* C21 as stated: the process is out of Connecting and Sampling only after an
\* explicit termination signal (the model has no fault of the link's open or close).
C21_StopsOnlyOnSignal == (pc \notin Running) => signal

\* C21 amended: framing errors, empty cycles, failed opens and failed sink writes
\* leave the process in Connecting or Sampling; it leaves them only on a termination
\* signal or on a fault raised by the link I/O of a capture, which is logged and
\* ends the process.
C21_StopsOnSignalOrCaptureFault ==
    /\ [][(pc \in Running /\ pc' \notin Running) =>
             \/ signal'
             \/ (pc \in {"capture", "poll"} /\ logged' = "fault" /\ pc' = "finally")]_vars
    /\ [](logged \in {"open_failed", "write_failed", "no_data", "wrote", "opened"} =>
             (pc \in Running /\ ~signal))
    /\ [][(pc = "select" /\ pc' # pc /\ ~signal') => (pc' = "write")]_vars
    /\ [][(pc = "write" /\ pc' # pc /\ ~signal') => (pc' = "sleep")]_vars
    /\ [][(pc = "sleep" /\ pc' # pc /\ ~signal') => (pc' = "capture")]_vars
    /\ [][(pc = "retry" /\ pc' # pc /\ ~signal') => (pc' = "open")]_vars

\* after a window whose candidates were all dropped and that decoded nothing, the
\* process is still in Sampling
C21_Witness ==
    /\ pc = "sleep"
    /\ logged = "no_data"
    /\ cands # <<>>
    /\ frames = <<>>
    /\ ~signal

----------------------------------------------------------------------------
(* main(): a window that decodes nothing *)

\* no frame of the window decodes as either kind
NoneDecodes ==
    \A i \in 1..Len(frames) :
        /\ decode_telemetry(frames[i]) = NoReading
        /\ decode_status(frames[i]) = NoReading

\* every candidate of the window is dropped: undersized or checksum-failing (not a
\* frame), or a frame that fails both signatures or carries the standby flag
AllDropped ==
    \A i \in 1..Len(cands) :
        \/ Len(cands[i].fr) < MinFrameLen
        \/ cands[i].fr \notin Range(frames)
        \/ /\ decode_telemetry(cands[i].fr) = NoReading
           /\ decode_status(cands[i].fr) = NoReading

\* C22: an iteration whose candidates are all dropped (undersized, checksum-failing,
\* signature-failing or standby), or in which no frame decodes, raises no error,
\* builds no event and writes nothing, logs the empty cycle, goes through the
\* inter-cycle sleep and is followed by the next capture.
C22_EmptyCycleCompletes ==
    /\ []((pc \in {"write", "sleep"} /\ (NoneDecodes \/ AllDropped)) =>
             /\ points = <<>>
             /\ written = <<>>
             /\ logged = (IF pc = "sleep" THEN "no_data" ELSE "none"))
    /\ [][(pc = "select" /\ pc' # pc /\ ~signal') => (pc' = "write")]_vars
    /\ [][(pc = "write" /\ NoneDecodes /\ pc' # pc /\ ~signal') =>
             (pc' = "sleep" /\ written' = <<>> /\ logged' = "no_data")]_vars
    /\ [][(pc = "sleep" /\ logged = "no_data" /\ pc' # pc /\ ~signal') =>
             (pc' = "capture" /\ ser' = "open")]_vars

\* an empty cycle at its sleep: one candidate failed the checksum, one frame carries
\* the standby flag, nothing was written
C22_Witness ==
    /\ pc = "sleep"
    /\ logged = "no_data"
    /\ written = <<>>
    /\ \E i \in 1..Len(cands) :
          Len(cands[i].fr) >= MinFrameLen /\ cands[i].fr \notin Range(frames)
    /\ \E i \in 1..Len(frames) :
          /\ Len(frames[i]) >= TeleMinLen
          /\ Slice(frames[i], 1, 5) = TeleSig
          /\ decode_telemetry(frames[i]) = NoReading

----------------------------------------------------------------------------
(* main(): nothing is carried from one iteration to the next *)

\* C23: tele_data, status_data and points are reset before every selection; the
\* readings of an iteration are decoded from frames of that iteration's window, whose
\* bytes all arrived in that window; a kind no frame of the window decodes as is
\* absent from the event, whatever an earlier iteration held; the sink receives at
\* most the one event of this iteration.
C23_NoCarryOver ==
    /\ (pc = "select") =>
          (tele_data = NoReading /\ status_data = NoReading /\ points = <<>>)
    /\ (pc \in {"write", "sleep"}) =>
          /\ buf \o inbuf = sinceStart
          /\ cands = Candidates(buf)
          /\ \A f \in Range(frames) : \E i \in 1..Len(cands) : cands[i].fr = f
          /\ HasTele => \E f \in Range(frames) : tele_data = decode_telemetry(f)
          /\ HasStat => \E f \in Range(frames) : status_data = decode_status(f)
          /\ (\A f \in Range(frames) : decode_telemetry(f) = NoReading) => ~HasTele
          /\ (\A f \in Range(frames) : decode_status(f) = NoReading) => ~HasStat
          /\ points \in {<<>>, <<MkPoint(tele_data, status_data)>>}
          /\ written \in {<<>>, points}

\* the previous iteration held a Telemetry reading, this window has a Status frame
\* and no Telemetry frame, and the event written carries the Status reading only
C23_Witness ==
    /\ pc = "sleep"
    /\ "tele" \in stale
    /\ \A f \in Range(frames) : decode_telemetry(f) = NoReading
    /\ HasStat
    /\ written = <<MkPoint(NoReading, status_data)>>

----------------------------------------------------------------------------
(* One window from the wire to the readings: a frame as the heat pump sends *)
(* it, delimiter, body and the checksum of the body, with one field set to  *)
(* a value whose bytes or whose checksum may hold 0x7E; bytes before it and *)
(* a frame after it; capture_frames' split and filter, then main's scans    *)

\* raw field values: 10.0; 0x007E; 0x7E00; 46 and 40, whose frames have a checksum
\* byte equal to 0x7E when set in the first field
WireVals == {100, 126, 32256, 46, 40}

WireFrame(n, sig, vals) == BuildFrame(Tail(WireBody(n, sig, vals)))

TeleBase ==
    (9 :> 100) @@ (11 :> 100) @@ (15 :> 100) @@ (25 :> 100) @@ (31 :> 100) @@ (41 :> 100)
StatBase == (33 :> 100) @@ (35 :> 100) @@ (37 :> 100)

WireFrames ==
    {WireFrame(44, TeleSig, [TeleBase EXCEPT ![o] = v]) : o \in DOMAIN TeleBase, v \in WireVals}
    \cup
    {WireFrame(48, StatSig, [StatBase EXCEPT ![o] = v]) : o \in DOMAIN StatBase, v \in WireVals}

WireBefore == {<<>>, Noise}
WireAfter == {<<>>, StatA, TeleB}

InitWire ==
    /\ MainInit
    /\ fn = "wire"
    /\ \E w \in WireFrames, a \in WireBefore, b \in WireAfter :
          arg = [wire |-> w, buf |-> a \o w \o b]
    /\ out = [frames |-> <<>>, tele |-> NoReading, status |-> NoReading, raised |-> FALSE]

\* frames = capture_frames(ser, duration=3.0), the window having read arg.buf
WireCapture ==
    /\ fn = "wire"
    /\ fn' = "captured"
    /\ out' = [out EXCEPT !.frames = SplitBuffer(arg.buf).frames]
    /\ UNCHANGED <<arg, mainVars>>

\* the two reversed scans of lines 141-153
WireSelect ==
    /\ fn = "captured"
    /\ fn' = "selected"
    /\ LET t == ScanTele(out.frames, Len(out.frames), <<>>)
           st == ScanStat(out.frames, Len(out.frames), <<>>)
       IN out' = [out EXCEPT !.tele = t.data, !.status = st.data,
                             !.raised = t.raised \/ st.raised]
    /\ UNCHANGED <<arg, mainVars>>

NextWire == WireCapture \/ WireSelect

SpecWire == InitWire /\ [][NextWire]_vars

\* the decoded values of the raw 16-bit values whose high or low byte is 0x7E
Readings7E ==
    {Div10(get_int16_signed(<<h, l>>, 0)) : h \in {Delim}, l \in 0..255}
    \cup {Div10(get_int16_signed(<<h, l>>, 0)) : h \in 0..255, l \in {Delim}}

HasInterior7E(frame) == \E j \in 2..Len(frame) : frame[j] = Delim

FieldsOf(reading) ==
    IF reading.kind \in {"tele", "status"}
    THEN {reading.fields[k] : k \in DOMAIN reading.fields}
    ELSE {}

\* C24: every frame capture_frames returns has 0x7E at index 0 and at no other
\* index; no reading selected from them has a field decoded from a raw value whose
\* high or low byte is 0x7E (12.6, from raw 0x007E, is never reported); a wire frame
\* with a 0x7E in its payload or checksum is not among the returned frames and the
\* reading it stands for is not the one selected.
C24_NoInteriorDelimiter ==
    /\ fn \in {"captured", "selected"} =>
          \A f \in Range(out.frames) :
              /\ f[1] = Delim
              /\ ~HasInterior7E(f)
    /\ fn = "selected" =>
          /\ ~out.raised
          /\ (FieldsOf(out.tele) \cup FieldsOf(out.status)) \cap Readings7E = {}
          /\ Tenths(126) \notin FieldsOf(out.tele) \cup FieldsOf(out.status)
          /\ HasInterior7E(arg.wire) =>
                /\ arg.wire \notin Range(out.frames)
                /\ TeleAccepts(arg.wire) => out.tele # ExpectTele(arg.wire)
                /\ StatAccepts(arg.wire) => out.status # ExpectStat(arg.wire)

\* a telemetry frame sent with raw 0x007E in a field went through capture and
\* selection: it was cut at the 0x7E and no Telemetry reading was selected
C24_Witness ==
    /\ fn = "selected"
    /\ TeleAccepts(arg.wire)
    /\ \E o \in DOMAIN TeleBase : arg.wire[o + 1] = 0 /\ arg.wire[o + 2] = Delim
    /\ arg.buf = arg.wire
    /\ out.frames = <<>>
    /\ out.tele = NoReading

\* a frame sent whose checksum holds 0x7E, followed by a whole frame: the first is
\* lost and the second is decoded
C24_ChecksumCutReached ==
    /\ fn = "selected"
    /\ TeleAccepts(arg.wire)
    /\ ~HasInterior7E(SubSeq(arg.wire, 1, Len(arg.wire) - 2))
    /\ HasInterior7E(arg.wire)
    /\ arg.wire \notin Range(out.frames)
    /\ out.status = ExpectStat(StatA)

\* a frame sent with no interior 0x7E is returned and decoded as sent
C24_WholeFrameReached ==
    /\ fn = "selected"
    /\ ~HasInterior7E(arg.wire)
    /\ arg.wire \in Range(out.frames)
    /\ out.tele = ExpectTele(arg.wire)

----------------------------------------------------------------------------
(* main's two scans applied to lists of frames of both kinds and of neither: *)
(* lengths below, at and above the two minimum lengths, the two signatures   *)
(* and near misses, standby and other values at offsets 9 and 10             *)

MaxFrames == 2

SelectLens == {TeleMinLen - 1, TeleMinLen, StatMinLen}
SelectSigs == {TeleSig, StatSig, <<0, 241, 18, 47>>, <<241, 241, 18, 46>>}
SelectPairs == {<<0, 0>>, <<0, 100>>}

SelectFrames ==
    {MkFrame(len, sig, pair, 0) : len \in SelectLens, sig \in SelectSigs, pair \in SelectPairs}

InitSelect ==
    /\ MainInit
    /\ fn = "frames"
    /\ arg \in UNION {[1..n -> SelectFrames] : n \in 0..MaxFrames}
    /\ out = [tele |-> NoReading, status |-> NoReading, raised |-> FALSE]

\* lines 141-153 on frames = arg
ApplySelect ==
    /\ fn = "frames"
    /\ fn' = "selected"
    /\ LET t == ScanTele(arg, Len(arg), <<>>)
           st == ScanStat(arg, Len(arg), <<>>)
       IN out' = [tele |-> t.data, status |-> st.data, raised |-> t.raised \/ st.raised]
    /\ UNCHANGED <<arg, mainVars>>

NextSelect == ApplySelect

SpecSelect == InitSelect /\ [][NextSelect]_vars

IsTeleKind(frame) == decode_telemetry(frame).kind = "tele"
IsStatKind(frame) == decode_status(frame).kind = "status"

\* fs without the frames at the positions in K
RECURSIVE Without(_, _)
Without(fs, K) ==
    IF fs = <<>> THEN <<>>
    ELSE IF Len(fs) \in K THEN Without(SubSeq(fs, 1, Len(fs) - 1), K)
    ELSE Append(Without(SubSeq(fs, 1, Len(fs) - 1), K), fs[Len(fs)])

TeleOf(fs) == ScanTele(fs, Len(fs), <<>>).data
StatOf(fs) == ScanStat(fs, Len(fs), <<>>).data

\* C25: no frame is decoded by both decoders; when both readings are selected they
\* are the decodings of two different frames at two different positions; the
\* Telemetry reading selected is the same with any of the Status frames removed,
\* and the Status reading is the same with any of the Telemetry frames removed.
\* (The first part is also evaluated on every frame of DecodeInputs, once, at the
\* empty list.)
C25_KindsAreDisjoint ==
    /\ \A f \in Range(arg) : ~(IsTeleKind(f) /\ IsStatKind(f))
    /\ arg = <<>> => \A f \in DecodeInputs : ~(IsTeleKind(f) /\ IsStatKind(f))
    /\ fn = "selected" =>
          /\ ~out.raised
          /\ (out.tele.kind = "tele" /\ out.status.kind = "status") =>
                \E i, j \in 1..Len(arg) :
                    /\ i # j
                    /\ arg[i] # arg[j]
                    /\ out.tele = decode_telemetry(arg[i])
                    /\ out.status = decode_status(arg[j])
          /\ \A K \in SUBSET {i \in 1..Len(arg) : IsStatKind(arg[i])} :
                TeleOf(Without(arg, K)) = out.tele
          /\ \A K \in SUBSET {i \in 1..Len(arg) : IsTeleKind(arg[i])} :
                StatOf(Without(arg, K)) = out.status

\* both readings were selected from a list of two frames
C25_Witness ==
    /\ fn = "selected"
    /\ Len(arg) = 2
    /\ out.tele.kind = "tele"
    /\ out.status.kind = "status"
    /\ IsStatKind(arg[2])
    /\ IsTeleKind(arg[1])

====
